---- MODULE Spec2Model ----
(***************************************************************************)
(* MeetingAudioService (audio_service.py): the transcript session protocol *)
(* and event pipeline.                                                     *)
(*                                                                         *)
(* Execution contexts:                                                     *)
(*   - the asyncio event-loop thread, which runs the control coroutine     *)
(*     (handle_commands / start_recording / stop_recording / cleanup) and  *)
(*     the send_transcript tasks created by the recognizer handlers;       *)
(*   - one recording_thread per successful start_recording, looping on     *)
(*     recorder.text(on_final_text);                                       *)
(*   - the recognizer, which invokes on_realtime_text / on_final_text.     *)
(*                                                                         *)
(* A string is a sequence of one-character strings; literals the code      *)
(* never inspects are kept as one token.  A confidence is in hundredths.   *)
(***************************************************************************)
EXTENDS Integers, Sequences, FiniteSets, TLC

\* ------------------------------------------------------------- bounds ----
\* commands and recognizer reports the environment issues in one run
MaxInputs == 3

\* ------------------------------------------------------------- inputs ----
\* raw recognizer texts: " ", " ...", "...w... "
RawTexts ==
  { <<" ">>,
    <<" ", ".", ".", ".">>,
    <<".", ".", ".", "w", ".", ".", ".", " ">> }

\* ------------------------------------------------------ text handling ----
Ellipsis == <<".", ".", ".">>

isspace(c) == c = " "

RECURSIVE lstrip(_)
lstrip(s) == IF s # <<>> /\ isspace(Head(s)) THEN lstrip(Tail(s)) ELSE s

RECURSIVE rstrip(_)
rstrip(s) ==
  IF s # <<>> /\ isspace(s[Len(s)]) THEN rstrip(SubSeq(s, 1, Len(s) - 1)) ELSE s

strip(s) == rstrip(lstrip(s))

startswith(s, p) == Len(s) >= Len(p) /\ SubSeq(s, 1, Len(p)) = p

endswith(s, p) == Len(s) >= Len(p) /\ SubSeq(s, Len(s) - Len(p) + 1, Len(s)) = p

upper(c) ==
  CASE c = "w" -> "W"
    [] c = "h" -> "H"
    [] OTHER -> c

\* preprocess_text
preprocess_text(text) ==
  LET t1 == lstrip(text)
      t2 == IF startswith(t1, Ellipsis) THEN SubSeq(t1, 4, Len(t1)) ELSE t1
      t3 == lstrip(t2)
  IN  IF t3 # <<>> THEN <<upper(t3[1])>> \o Tail(t3) ELSE t3

\* on_final_text that leaves a trailing ellipsis in place
final_text_keep_ellipsis(text) == rstrip(preprocess_text(text))

\* on_final_text, the text it builds after its first emptiness test
final_text(text) ==
  LET t == rstrip(preprocess_text(text))
  IN  IF endswith(t, Ellipsis) THEN rstrip(SubSeq(t, 1, Len(t) - 3)) ELSE t

\* ------------------------------------------------------------- labels ----
Digits == <<"1", "2", "3", "4", "5", "6", "7", "8", "9">>

\* f"Speaker_{n}"
SpeakerLabel(n) == <<"Speaker_", Digits[n]>>

StartedText == <<"[Meeting Recording Started]">>
StoppedText == <<"[Meeting Recording Stopped]">>
NowSpeakingText(label) == <<"[Now speaking: ">> \o label \o <<"]">>

\* the default of send_transcript's confidence parameter
ConfDefault == 90

ConfPartial == 70
ConfFinal == 95
ConfControl == 100

\* -------------------------------------------------------------- state ----
VARIABLES
  websocket,            \* "none" (self.websocket is None), "open", "closed"
                        \* (by websocket.close()), "lost" (by the transport)
  nConnects,            \* connections opened by websockets.connect
  recorder,             \* self.recorder has been set up
  is_recording,
  speaker_count,
  current_speaker,
  completed_sentences,
  current_text,
  recording_thread,     \* index into workers of self.recording_thread, 0 if unset
  workers,              \* the recording threads started so far, by state
  tasks,                \* send_transcript tasks created and not yet run
  sink,                 \* events the sink has received, in order
  pc,                   \* where the control coroutine is
  todo,                 \* calls the control coroutine still has to make
  fired,                \* the recognizer handler invocations so far
  nOps,                 \* operations begun by the control coroutine
  lastOp                \* the latest of them, and is_recording when it began

svc == <<websocket, nConnects, recorder, is_recording, speaker_count,
         current_speaker, completed_sentences, current_text>>
vars == <<websocket, nConnects, recorder, is_recording, speaker_count,
          current_speaker, completed_sentences, current_text,
          recording_thread, workers, tasks, sink, pc, todo, fired, nOps,
          lastOp>>

\* __init__
Init ==
  /\ websocket = "none"
  /\ nConnects = 0
  /\ recorder = FALSE
  /\ is_recording = FALSE
  /\ speaker_count = 1
  /\ current_speaker = SpeakerLabel(1)
  /\ completed_sentences = <<>>
  /\ current_text = <<>>
  /\ recording_thread = 0
  /\ workers = <<>>
  /\ tasks = <<>>
  /\ sink = <<>>
  /\ pc = "idle"
  /\ todo = <<>>
  /\ fired = <<>>
  /\ nOps = 0
  /\ lastOp = [name |-> "none", rec |-> FALSE]

\* --------------------------------------------------------------- send ----
\* send_transcript without the failure of websocket.send on a connection that
\* is no longer open
send_transcript_unchecked(ws, spk, snk, text, is_final, confidence, cb) ==
  IF ws = "none" THEN snk
  ELSE Append(snk, [speaker |-> spk, text |-> text,
                    confidence |-> confidence, is_final |-> is_final,
                    cb |-> cb])

\* send_transcript(text, is_final, confidence) run with self.websocket = ws and
\* self.current_speaker = spk: the events at the sink afterwards.  A closed or
\* lost connection makes websocket.send raise, which is caught and logged.
\* cb is the index in fired of the handler invocation that created the task
\* (0 for a control event); the timestamp is not modelled.
send_transcript(ws, spk, snk, text, is_final, confidence, cb) ==
  IF ws = "none" THEN snk
  ELSE IF ws = "open"
       THEN Append(snk, [speaker |-> spk, text |-> text,
                         confidence |-> confidence, is_final |-> is_final,
                         cb |-> cb])
       ELSE snk

\* a scheduler that runs the newest task first
create_task_front(q, t) == <<t>> \o q

\* asyncio.create_task on the event-loop thread: the task joins the ready queue
create_task(q, t) == Append(q, t)

\* inputs issued so far
Inputs == nOps + Len(fired)

\* the control coroutine returns from a call
Return(rest) ==
  /\ pc' = IF rest = <<>> THEN "idle" ELSE "call"
  /\ todo' = rest

\* the event loop can run ready tasks and callbacks: the control coroutine is
\* suspended in an await
LoopFree == pc \in {"idle", "connecting", "start_sent", "joining", "closing"}

\* ----------------------------------------------------- start_recording ----
\* start_recording after the connection test: is_recording = True and
\* the "[Meeting Recording Started]" notification sent on connection state ws
StartNotify(ws) ==
  /\ is_recording' = TRUE
  /\ sink' = send_transcript(ws, current_speaker, sink, StartedText, TRUE,
                             ConfControl, 0)
  /\ pc' = "start_sent"

\* start_recording without the "Already recording" test
BeginStartUnguarded(rest) ==
  /\ recorder' = TRUE
  /\ todo' = rest
  /\ IF websocket = "none"
     THEN /\ pc' = "connecting"
          /\ UNCHANGED <<is_recording, sink>>
     ELSE StartNotify(websocket)
  /\ UNCHANGED <<websocket, nConnects, speaker_count, current_speaker,
                 completed_sentences, current_text, recording_thread,
                 workers, tasks, fired>>

\* start_recording that connects without testing self.websocket
BeginStartReconnect(rest) ==
  IF is_recording
  THEN /\ Return(rest)
       /\ UNCHANGED <<svc, recording_thread, workers, tasks, sink, fired>>
  ELSE /\ recorder' = TRUE
       /\ todo' = rest
       /\ pc' = "connecting"
       /\ UNCHANGED <<is_recording, sink, websocket, nConnects, speaker_count,
                      current_speaker, completed_sentences, current_text,
                      recording_thread, workers, tasks, fired>>

\* start_recording up to its first await
BeginStart(rest) ==
  IF is_recording
  THEN /\ Return(rest)
       /\ UNCHANGED <<svc, recording_thread, workers, tasks, sink, fired>>
  ELSE /\ recorder' = TRUE
       /\ todo' = rest
       /\ IF websocket = "none"
          THEN /\ pc' = "connecting"
               /\ UNCHANGED <<is_recording, sink>>
          ELSE StartNotify(websocket)
       /\ UNCHANGED <<websocket, nConnects, speaker_count, current_speaker,
                      completed_sentences, current_text, recording_thread,
                      workers, tasks, fired>>

\* start_recording going on whatever connect_websocket returned
ConnectDoneIgnoringFailure(ok) ==
  /\ pc = "connecting"
  /\ websocket' = IF ok THEN "open" ELSE websocket
  /\ nConnects' = IF ok THEN nConnects + 1 ELSE nConnects
  /\ StartNotify(IF ok THEN "open" ELSE websocket)
  /\ UNCHANGED todo
  /\ UNCHANGED <<recorder, speaker_count, current_speaker, completed_sentences,
                 current_text, recording_thread, workers, tasks, fired, nOps,
                 lastOp>>

\* connect_websocket returns; on success start_recording goes on
ConnectDone(ok) ==
  /\ pc = "connecting"
  /\ IF ok
     THEN /\ websocket' = "open"
          /\ nConnects' = nConnects + 1
          /\ StartNotify("open")
          /\ UNCHANGED todo
     ELSE /\ Return(todo)
          /\ UNCHANGED <<websocket, nConnects, is_recording, sink>>
  /\ UNCHANGED <<recorder, speaker_count, current_speaker, completed_sentences,
                 current_text, recording_thread, workers, tasks, fired, nOps, lastOp>>

\* start_recording creates and starts recording_thread
StartThread ==
  /\ pc = "start_sent"
  /\ workers' = Append(workers, "check")
  /\ recording_thread' = Len(workers) + 1
  /\ Return(todo)
  /\ UNCHANGED <<svc, tasks, sink, fired, nOps, lastOp>>

\* ------------------------------------------------------ stop_recording ----
\* stop_recording without the is_recording test
BeginStopUnguarded(rest) ==
  /\ is_recording' = FALSE
  /\ sink' = IF websocket # "none"
             THEN send_transcript(websocket, current_speaker, sink,
                                  StoppedText, TRUE, ConfControl, 0)
             ELSE sink
  /\ pc' = "joining"
  /\ todo' = rest
  /\ UNCHANGED <<websocket, nConnects, recorder, speaker_count,
                 current_speaker, completed_sentences, current_text,
                 recording_thread, workers, tasks, fired>>

\* stop_recording up to the join
BeginStop(rest) ==
  IF ~is_recording
  THEN /\ Return(rest)
       /\ UNCHANGED <<svc, recording_thread, workers, tasks, sink, fired>>
  ELSE /\ is_recording' = FALSE
       /\ sink' = IF websocket # "none"
                  THEN send_transcript(websocket, current_speaker, sink,
                                       StoppedText, TRUE, ConfControl, 0)
                  ELSE sink
       /\ pc' = "joining"
       /\ todo' = rest
       /\ UNCHANGED <<websocket, nConnects, recorder, speaker_count,
                      current_speaker, completed_sentences, current_text,
                      recording_thread, workers, tasks, fired>>

\* recording_thread.join(timeout=2) returns: the thread has ended, or the
\* timeout has expired with the thread still blocked in recorder.text (a
\* thread that is at its loop test gets there within the timeout)
JoinReturn ==
  /\ pc = "joining"
  /\ recording_thread \in DOMAIN workers => workers[recording_thread] # "check"
  /\ Return(todo)
  /\ UNCHANGED <<svc, recording_thread, workers, tasks, sink, fired, nOps, lastOp>>

\* ------------------------------------------------------------- cleanup ----
\* cleanup after its stop_recording: websocket.close() is called
BeginClose(rest) ==
  IF websocket # "none"
  THEN /\ websocket' = IF websocket = "lost" THEN "lost" ELSE "closed"
       /\ pc' = "closing"
       /\ todo' = rest
       /\ UNCHANGED <<nConnects, recorder, is_recording, speaker_count,
                      current_speaker, completed_sentences, current_text,
                      recording_thread, workers, tasks, sink, fired>>
  ELSE /\ Return(rest)
       /\ UNCHANGED <<svc, recording_thread, workers, tasks, sink, fired>>

\* websocket.close() returns
CloseDone ==
  /\ pc = "closing"
  /\ Return(todo)
  /\ UNCHANGED <<svc, recording_thread, workers, tasks, sink, fired, nOps, lastOp>>

\* cleanup that leaves the connection as it is
BeginCleanupNoClose(rest) == BeginStop(rest)

\* cleanup: stop_recording, then the close
BeginCleanup(rest) == BeginStop(<<"close">> \o rest)

\* the control coroutine makes its next call
Dispatch ==
  /\ pc = "call"
  /\ LET h == Head(todo)
         r == Tail(todo)
     IN  CASE h = "close" -> BeginClose(r)
           [] h = "cleanup" -> BeginCleanup(r)
           [] OTHER -> /\ pc' = "done"
                       /\ todo' = r
                       /\ UNCHANGED <<svc, recording_thread, workers, tasks,
                                      sink, fired>>
  /\ UNCHANGED <<nOps, lastOp>>

\* ------------------------------------------------------------ commands ----
CanCommand == pc = "idle" /\ Inputs < MaxInputs

\* handle_commands, 's'
CmdStart ==
  /\ CanCommand
  /\ nOps' = nOps + 1
  /\ lastOp' = [name |-> "start", rec |-> is_recording]
  /\ BeginStart(<<>>)

\* the 'n' command announcing the new speaker under the previous label
CmdNextStaleLabel ==
  /\ CanCommand
  /\ nOps' = nOps + 1
  /\ lastOp' = [name |-> "next", rec |-> is_recording]
  /\ speaker_count' = speaker_count + 1
  /\ current_speaker' = SpeakerLabel(speaker_count + 1)
  /\ sink' = IF websocket # "none"
             THEN send_transcript(websocket, current_speaker, sink,
                                  NowSpeakingText(SpeakerLabel(speaker_count + 1)),
                                  TRUE, ConfControl, 0)
             ELSE sink
  /\ UNCHANGED <<websocket, nConnects, recorder, is_recording,
                 completed_sentences, current_text, recording_thread, workers,
                 tasks, pc, todo, fired>>

\* handle_commands, 'n'
CmdNext ==
  /\ CanCommand
  /\ nOps' = nOps + 1
  /\ lastOp' = [name |-> "next", rec |-> is_recording]
  /\ speaker_count' = speaker_count + 1
  /\ current_speaker' = SpeakerLabel(speaker_count + 1)
  /\ sink' = IF websocket # "none"
             THEN send_transcript(websocket, SpeakerLabel(speaker_count + 1),
                                  sink,
                                  NowSpeakingText(SpeakerLabel(speaker_count + 1)),
                                  TRUE, ConfControl, 0)
             ELSE sink
  /\ UNCHANGED <<websocket, nConnects, recorder, is_recording,
                 completed_sentences, current_text, recording_thread, workers,
                 tasks, pc, todo, fired>>

\* handle_commands, 'q': stop_recording, break, cleanup; then main's finally
\* runs cleanup again and the process ends
CmdQuit ==
  /\ CanCommand
  /\ nOps' = nOps + 1
  /\ lastOp' = [name |-> "quit", rec |-> is_recording]
  /\ BeginStop(<<"cleanup", "cleanup", "exit">>)

\* Ctrl-C while handle_commands awaits the next command.  Either
\* KeyboardInterrupt is raised inside handle_commands (caught): its handler
\* breaks out of the loop, cleanup runs there and again in main's finally; or
\* the main task is cancelled: the CancelledError passes both handlers of
\* handle_commands and only main's finally runs cleanup.
Interrupt(caught) ==
  /\ CanCommand
  /\ nOps' = nOps + 1
  /\ lastOp' = [name |-> "interrupt", rec |-> is_recording]
  /\ BeginCleanup(IF caught THEN <<"cleanup", "exit">> ELSE <<"exit">>)

\* the control context awaits stop_recording() and goes on
CallStop ==
  /\ CanCommand
  /\ nOps' = nOps + 1
  /\ lastOp' = [name |-> "stop", rec |-> is_recording]
  /\ BeginStop(<<>>)

\* ---------------------------------------------------- recognizer handlers ----
\* Where the recognizer invokes a handler:
\*   "loop"   on the event-loop thread: asyncio.create_task schedules the send
\*   "thread" on a thread of the recognizer: asyncio.create_task finds no running
\*            event loop and raises RuntimeError, which ends in that thread
\*   "inline" (on_final_text only) inside recorder.text on recording_thread:
\*            the RuntimeError propagates into recording_thread
PartialContexts == {"loop", "thread"}
FinalContexts == {"loop", "thread", "inline"}

CanFire(ctx) ==
  /\ recorder
  /\ pc # "done"
  /\ Inputs < MaxInputs
  /\ ctx = "loop" => LoopFree

\* the record kept of a handler invocation: its kind, the raw and the
\* normalized text, the speaker label, whether the service was Recording and
\* Connected, and the context of the invocation
Firing(kind, raw, text, ctx) ==
  [kind |-> kind, raw |-> raw, text |-> text, speaker |-> current_speaker,
   live |-> is_recording /\ websocket = "open", ctx |-> ctx]

\* on_realtime_text(text), the state it leaves
RealtimeText(text, ctx) ==
  IF strip(text) = <<>>
  THEN UNCHANGED <<current_text, tasks>>
  ELSE /\ current_text' = preprocess_text(text)
       /\ tasks' = IF ctx = "loop"
                   THEN create_task(tasks,
                          [text |-> preprocess_text(text), is_final |-> FALSE,
                           confidence |-> ConfPartial, cb |-> Len(fired) + 1])
                   ELSE tasks

\* the recognizer reports a realtime transcription update
OnRealtimeText(text, ctx) ==
  /\ CanFire(ctx)
  /\ RealtimeText(text, ctx)
  /\ fired' = Append(fired, Firing("partial", text, preprocess_text(text), ctx))
  /\ UNCHANGED <<websocket, nConnects, recorder, is_recording, speaker_count,
                 current_speaker, completed_sentences, recording_thread,
                 workers, sink, pc, todo, nOps, lastOp>>

\* on_final_text(text) returns before it builds an event
FinalSkipped(text) == strip(text) = <<>> \/ final_text(text) = <<>>

\* on_final_text(text), the state it leaves; the statement that resets
\* current_text comes after asyncio.create_task
FinalText(text, ctx) ==
  IF FinalSkipped(text)
  THEN UNCHANGED <<completed_sentences, current_text, tasks>>
  ELSE /\ completed_sentences' = Append(completed_sentences, final_text(text))
       /\ IF ctx = "loop"
          THEN /\ tasks' = create_task(tasks,
                             [text |-> final_text(text), is_final |-> TRUE,
                              confidence |-> ConfFinal, cb |-> Len(fired) + 1])
               /\ current_text' = <<>>
          ELSE UNCHANGED <<current_text, tasks>>

\* ------------------------------------------------------ recording_thread ----
Alive(w) == workers[w] \in {"check", "poll"}

\* a recording thread that polls again whatever the flag says
WorkerCheckForever(w) ==
  /\ pc # "done"
  /\ workers[w] = "check"
  /\ workers' = [workers EXCEPT ![w] = "poll"]
  /\ UNCHANGED <<svc, recording_thread, tasks, sink, pc, todo, fired, nOps,
                 lastOp>>

\* while self.is_recording
WorkerCheck(w) ==
  /\ pc # "done"
  /\ workers[w] = "check"
  /\ workers' = [workers EXCEPT ![w] = IF is_recording THEN "poll" ELSE "exited"]
  /\ UNCHANGED <<svc, recording_thread, tasks, sink, pc, todo, fired, nOps, lastOp>>

\* self.recorder.text(self.on_final_text) delivers an utterance
PollFinal(w, text, ctx) ==
  /\ workers[w] = "poll"
  /\ CanFire(ctx)
  /\ FinalText(text, ctx)
  /\ fired' = Append(fired, Firing("final", text,
                  IF strip(text) = <<>> THEN <<>> ELSE final_text(text),
                  ctx))
  /\ workers' = [workers EXCEPT ![w] =
                   IF ctx = "inline" /\ ~FinalSkipped(text)
                   THEN "err_callback" ELSE "check"]
  /\ UNCHANGED <<websocket, nConnects, recorder, is_recording, speaker_count,
                 current_speaker, recording_thread, sink, pc, todo, nOps, lastOp>>

\* self.recorder.text returns and has not invoked on_final_text
PollIdle(w) ==
  /\ pc # "done"
  /\ workers[w] = "poll"
  /\ workers' = [workers EXCEPT ![w] = "check"]
  /\ UNCHANGED <<svc, recording_thread, tasks, sink, pc, todo, fired, nOps,
                 lastOp>>

\* self.recorder.text raises: except Exception, outside the while loop
PollError(w) ==
  /\ pc # "done"
  /\ workers[w] = "poll"
  /\ workers' = [workers EXCEPT ![w] = "err_recognizer"]
  /\ UNCHANGED <<svc, recording_thread, tasks, sink, pc, todo, fired, nOps, lastOp>>

\* ------------------------------------------------------------ event loop ----
\* a send task that gives up the connection object when its send fails
RunTaskDropsConnection ==
  /\ LoopFree
  /\ tasks # <<>>
  /\ sink' = send_transcript(websocket, current_speaker, sink, Head(tasks).text,
                             Head(tasks).is_final, Head(tasks).confidence,
                             Head(tasks).cb)
  /\ tasks' = Tail(tasks)
  /\ websocket' = IF websocket \in {"closed", "lost"} THEN "none" ELSE websocket
  /\ UNCHANGED <<nConnects, recorder, is_recording, speaker_count,
                 current_speaker, completed_sentences, current_text,
                 recording_thread, workers, pc, todo, fired, nOps, lastOp>>

\* the event loop runs the oldest ready send_transcript task
RunTask ==
  /\ LoopFree
  /\ tasks # <<>>
  /\ sink' = send_transcript(websocket, current_speaker, sink, Head(tasks).text,
                             Head(tasks).is_final, Head(tasks).confidence,
                             Head(tasks).cb)
  /\ tasks' = Tail(tasks)
  /\ UNCHANGED <<svc, recording_thread, workers, pc, todo, fired, nOps, lastOp>>

\* the connection to the sink is lost: websocket.send raises from now on
ConnectionLost ==
  /\ pc # "done"
  /\ websocket = "open"
  /\ websocket' = "lost"
  /\ UNCHANGED <<nConnects, recorder, is_recording, speaker_count,
                 current_speaker, completed_sentences, current_text,
                 recording_thread, workers, tasks, sink, pc, todo, fired, nOps, lastOp>>

\* --------------------------------------------------------- specification ----
Next ==
  \/ CmdStart
  \/ CmdNext
  \/ CmdQuit
  \/ CallStop
  \/ \E caught \in BOOLEAN : Interrupt(caught)
  \/ \E ok \in BOOLEAN : ConnectDone(ok)
  \/ StartThread
  \/ JoinReturn
  \/ CloseDone
  \/ Dispatch
  \/ \E text \in RawTexts, ctx \in PartialContexts : OnRealtimeText(text, ctx)
  \/ \E w \in DOMAIN workers : WorkerCheck(w)
  \/ \E w \in DOMAIN workers, text \in RawTexts, ctx \in FinalContexts :
       PollFinal(w, text, ctx)
  \/ \E w \in DOMAIN workers : PollIdle(w)
  \/ \E w \in DOMAIN workers : PollError(w)
  \/ RunTask
  \/ ConnectionLost

Spec == Init /\ [][Next]_vars

\* the blocking call self.recorder.text of recording thread w returns
PollReturns(w) ==
  /\ w \in DOMAIN workers
  /\ \/ PollIdle(w)
     \/ PollError(w)
     \/ \E text \in RawTexts, ctx \in FinalContexts : PollFinal(w, text, ctx)

\* Every recording thread is scheduled, each of its polls returns in the end,
\* and the join gives up at its timeout.
SpecLive ==
  /\ Spec
  /\ \A w \in 1..MaxInputs :
       /\ WF_vars(w \in DOMAIN workers /\ WorkerCheck(w))
       /\ WF_vars(PollReturns(w))
  /\ WF_vars(JoinReturn)

\* ================================================================ claims ====
\* events at the sink, and tasks still to run, that come from invocation k
Delivered(k) == {i \in DOMAIN sink : sink[i].cb = k}
Pending(k) == {i \in DOMAIN tasks : tasks[i].cb = k}

\* the control coroutine invokes stop_recording
StopInvoked ==
  \/ CallStop
  \/ CmdQuit
  \/ \E caught \in BOOLEAN : Interrupt(caught)
  \/ (Dispatch /\ Head(todo) = "cleanup")

\* C1: every speech event at the sink carries the speaker label that was
\* current when its recognizer handler fired, also when a next-speaker command
\* ran between the handler and the send.
C1_LabelCapturedAtCallback ==
  \A i \in DOMAIN sink :
    sink[i].cb # 0 => sink[i].speaker = fired[sink[i].cb].speaker

\* C2: no event with empty text is ever sent, whatever the raw text of the
\* handler invocation (partial or final) normalizes to.
C2_NoEmptyTextSent ==
  \A i \in DOMAIN sink : sink[i].text # <<>>

\* C3: a recognizer error raised during a poll while Recording does not end
\* the recording thread.
C3_PollErrorKeepsPolling ==
  [][\A w \in DOMAIN workers :
       (is_recording /\ workers[w] = "poll") => workers'[w] # "err_recognizer"]_vars

\* C4: over any sequence of start and stop operations at most one recording
\* thread is alive.
C4_AtMostOneWorker ==
  Cardinality({w \in DOMAIN workers : Alive(w)}) <= 1

\* C5: two delivered events of the same source (both partial, or both final)
\* are at the sink in the order in which their handlers fired.
C5_SourceOrderPreserved ==
  \A i, j \in DOMAIN sink :
    (i < j /\ sink[i].cb # 0 /\ sink[j].cb # 0
       /\ sink[i].is_final = sink[j].is_final)
    => sink[i].cb < sink[j].cb

C5_Witness ==
  \E i, j \in DOMAIN sink :
    /\ i < j
    /\ sink[i].cb # 0 /\ sink[j].cb # 0
    /\ sink[i].is_final = sink[j].is_final

\* C6: while Recording and Connected, every handler invocation with non-empty
\* normalized text yields exactly one event (pending or delivered, never lost,
\* never doubled) with that text and the finality of the invocation.
C6_ExactlyOneEventPerCallback ==
  \A k \in DOMAIN fired :
    (fired[k].live /\ fired[k].text # <<>> /\ websocket = "open")
    => /\ Cardinality(Delivered(k)) + Cardinality(Pending(k)) = 1
       /\ \A i \in Delivered(k) :
            /\ sink[i].text = fired[k].text
            /\ sink[i].is_final = (fired[k].kind = "final")

\* C7: a start command issued while Recording sends nothing, starts no
\* recording thread and leaves the state Recording; a Started event is only
\* ever sent by a step that takes the state from Idle to Recording.
C7_StartIdempotent ==
  [][/\ (CmdStart /\ is_recording)
          => (sink' = sink /\ workers' = workers /\ is_recording' /\ pc' = "idle")
     /\ (Len(sink') > Len(sink) /\ sink'[Len(sink')].text = StartedText)
          => (~is_recording /\ is_recording')]_vars

C7_Witness ==
  /\ lastOp = [name |-> "start", rec |-> TRUE]
  /\ pc = "idle"
  /\ is_recording

\* C8: a start whose connection attempt fails aborts: state Idle, nothing
\* sent, no recording thread, channel still Disconnected; a later start tries
\* to connect again.
C8_ConnectFailedAborts ==
  /\ [](pc = "connecting" => (~is_recording /\ websocket = "none"))
  /\ [][/\ ConnectDone(FALSE)
             => (~is_recording' /\ sink' = sink /\ workers' = workers
                   /\ websocket' = "none" /\ pc' = "idle")
        /\ (CmdStart /\ ~is_recording /\ websocket = "none")
             => pc' = "connecting"]_vars

C8_Witness ==
  /\ pc = "idle"
  /\ lastOp.name = "start"
  /\ recorder
  /\ websocket = "none"
  /\ ~is_recording
  /\ workers = <<>>
  /\ sink = <<>>

\* C9: an event reaches the sink only over an open connection; a send run
\* while the connection is absent, closed or lost delivers nothing and changes
\* no state of the service.
C9_DeliveredOnlyWhenConnected ==
  [][/\ sink' # sink => (websocket' = "open" /\ websocket \in {"none", "open"})
     /\ (RunTask /\ websocket # "open")
          => (sink' = sink /\ UNCHANGED <<svc, workers, pc>>)]_vars

\* a task created while Recording and Connected was run after websocket.close()
C9_Witness ==
  /\ websocket = "closed"
  /\ \E k \in DOMAIN fired :
       /\ fired[k].live
       /\ fired[k].ctx = "loop"
       /\ fired[k].text # <<>>
       /\ Delivered(k) = {}
       /\ Pending(k) = {}

\* C10: stop_recording invoked in state Idle sends nothing and leaves the
\* recording state, the speaker session and the connection as they are.
C10_StopWhenIdleIsNoOp ==
  [][(StopInvoked /\ ~is_recording)
       => UNCHANGED <<sink, svc, workers, tasks, recording_thread>>]_vars

C10_Witness ==
  /\ lastOp = [name |-> "stop", rec |-> FALSE]
  /\ pc = "idle"

C12_ConfidenceByKind ==
  \A i \in DOMAIN sink :
    IF sink[i].cb = 0
    THEN /\ sink[i].is_final
         /\ sink[i].confidence = 100
         /\ \/ sink[i].text = <<"[Meeting Recording Started]">>
            \/ sink[i].text = <<"[Meeting Recording Stopped]">>
            \/ \E n \in 1..9 :
                 sink[i].text = <<"[Now speaking: ", "Speaker_", Digits[n], "]">>
    ELSE IF fired[sink[i].cb].kind = "partial"
         THEN ~sink[i].is_final /\ sink[i].confidence = 70
         ELSE sink[i].is_final /\ sink[i].confidence = 95

C12_Witness ==
  /\ \E i \in DOMAIN sink : sink[i].cb = 0
  /\ \E i \in DOMAIN sink : sink[i].cb # 0 /\ fired[sink[i].cb].kind = "partial"
  /\ \E i \in DOMAIN sink : sink[i].cb # 0 /\ fired[sink[i].cb].kind = "final"

\* normalize(raw, isFinal) as the design states it
Normalize(raw, isFinal) ==
  LET a == lstrip(raw)
      b == IF Len(a) >= 3 /\ a[1] = "." /\ a[2] = "." /\ a[3] = "."
           THEN lstrip(SubSeq(a, 4, Len(a))) ELSE a
      c == IF b = <<>> THEN b ELSE [b EXCEPT ![1] = upper(b[1])]
      d == rstrip(c)
      n == Len(d)
      e == IF n >= 3 /\ d[n - 2] = "." /\ d[n - 1] = "." /\ d[n] = "."
           THEN rstrip(SubSeq(d, 1, n - 3)) ELSE d
  IN  IF isFinal THEN e ELSE c

\* C13: the text of every speech event is normalize(raw, isFinal) of the raw
\* text its handler received; normalize("world...", true) = "World",
\* normalize("...hello", true) = "Hello", and a partial keeps its trailing
\* ellipsis.
C13_TextIsNormalized ==
  /\ \A i \in DOMAIN sink :
       sink[i].cb # 0
       => sink[i].text = Normalize(fired[sink[i].cb].raw, sink[i].is_final)
  /\ final_text(<<"w", "o", "r", "l", "d", ".", ".", ".">>)
       = <<"W", "o", "r", "l", "d">>
  /\ final_text(<<".", ".", ".", "h", "e", "l", "l", "o">>)
       = <<"H", "e", "l", "l", "o">>
  /\ preprocess_text(<<"w", "o", "r", "l", "d", ".", ".", ".">>)
       = <<"W", "o", "r", "l", "d", ".", ".", ".">>

\* a final and a partial event for the raw text "...w... "
C13_Witness ==
  /\ \E i \in DOMAIN sink :
       /\ sink[i].cb # 0 /\ sink[i].is_final
       /\ fired[sink[i].cb].raw = <<".", ".", ".", "w", ".", ".", ".", " ">>
       /\ sink[i].text = <<"W">>
  /\ \E i \in DOMAIN sink :
       /\ sink[i].cb # 0 /\ ~sink[i].is_final
       /\ sink[i].text = <<"W", ".", ".", ".", " ">>

C15_NextSpeaker ==
  /\ [](speaker_count >= 1
        /\ current_speaker = <<"Speaker_", Digits[speaker_count]>>)
  /\ [][CmdNext
          => /\ speaker_count' = speaker_count + 1
             /\ is_recording' = is_recording
             /\ websocket' = websocket
             /\ sink' = IF websocket = "open"
                        THEN Append(sink,
                               [speaker |-> <<"Speaker_", Digits[speaker_count + 1]>>,
                                text |-> <<"[Now speaking: ", "Speaker_",
                                           Digits[speaker_count + 1], "]">>,
                                confidence |-> 100, is_final |-> TRUE,
                                cb |-> 0])
                        ELSE sink]_vars

C15_Witness ==
  /\ lastOp = [name |-> "next", rec |-> TRUE]
  /\ speaker_count = 2
  /\ sink # <<>>
  /\ sink[Len(sink)].text = <<"[Now speaking: ", "Speaker_", "2", "]">>

\* C16: a transmission that fails drops its event and changes nothing else:
\* the task is not queued again, recording state, connection and speaker
\* session stay as they are, and a command or call whose notification fails
\* completes as if it had been sent.
C16_SendFailureDropsEvent ==
  [][/\ (RunTask /\ websocket = "lost")
          => (sink' = sink /\ tasks' = Tail(tasks) /\ pc' = pc
                /\ UNCHANGED <<svc, workers>>)
     /\ (CmdNext /\ websocket = "lost")
          => (sink' = sink /\ websocket' = "lost" /\ pc' = "idle"
                /\ is_recording' = is_recording
                /\ speaker_count' = speaker_count + 1)
     /\ (CmdStart /\ ~is_recording /\ websocket = "lost")
          => (sink' = sink /\ websocket' = "lost" /\ is_recording'
                /\ pc' = "start_sent")
     /\ (StopInvoked /\ is_recording /\ websocket = "lost")
          => (sink' = sink /\ websocket' = "lost" /\ ~is_recording'
                /\ pc' = "joining")]_vars

\* a task created while Recording and Connected was run on the lost connection
C16_Witness ==
  /\ websocket = "lost"
  /\ \E k \in DOMAIN fired :
       /\ fired[k].live
       /\ fired[k].ctx = "loop"
       /\ fired[k].text # <<>>
       /\ Delivered(k) = {}
       /\ Pending(k) = {}

\* recording thread w has been started; it has ended
Started(w) == w \in DOMAIN workers
Ended(w) == IF w \in DOMAIN workers THEN ~Alive(w) ELSE FALSE

\* C17: once the state is Idle again, a recording thread that is still alive
\* ends, unless a start makes the state Recording again first (a daemon thread
\* also ends with the process); and stop_recording leaves its join.
C17_WorkerTerminatesAfterStop ==
  /\ \A w \in 1..MaxInputs :
       (Started(w) /\ ~Ended(w) /\ ~is_recording)
         ~> (Ended(w) \/ is_recording \/ pc = "done")
  /\ (pc = "joining") ~> (pc # "joining")

\* stop_recording has returned while the thread was still in its poll, and the
\* thread has left its loop since
C17_Witness ==
  /\ lastOp = [name |-> "stop", rec |-> TRUE]
  /\ pc = "idle"
  /\ ~is_recording
  /\ workers = <<"exited">>

\* the normalized texts of the final invocations that built an event, in order
RECURSIVE FinalLog(_)
FinalLog(f) ==
  IF f = <<>> THEN <<>>
  ELSE LET l == f[Len(f)]
           init == FinalLog(SubSeq(f, 1, Len(f) - 1))
       IN  IF l.kind = "final" /\ l.text # <<>> THEN Append(init, l.text)
           ELSE init

\* C18: the completed-sentence log is the sequence of the non-empty
\* normalized final texts in invocation order; after a final invocation with
\* non-empty normalized text the partial text is empty; after a partial
\* invocation it is that invocation's normalized text.
C18_SessionBookkeeping ==
  /\ completed_sentences = FinalLog(fired)
  /\ fired # <<>>
       => LET l == fired[Len(fired)]
          IN  /\ (l.kind = "final" /\ l.text # <<>>) => current_text = <<>>
              /\ (l.kind = "partial" /\ strip(l.raw) # <<>>)
                   => current_text = l.text

\* the Started and Stopped events at the sink, in order
IsBracket(e) ==
  \/ e.text = <<"[Meeting Recording Started]">>
  \/ e.text = <<"[Meeting Recording Stopped]">>
Brackets == SelectSeq(sink, IsBracket)

\* C19: at the sink Started and Stopped events alternate strictly, beginning
\* with Started; a session has at most one Stopped although quitting invokes
\* stop_recording three times.
C19_ControlEventsBracketed ==
  \A i \in DOMAIN Brackets :
    Brackets[i].text = IF i % 2 = 1 THEN <<"[Meeting Recording Started]">>
                       ELSE <<"[Meeting Recording Stopped]">>

\* quit while Recording: one Started, one Stopped, process ended
C19_Witness ==
  /\ pc = "done"
  /\ lastOp = [name |-> "quit", rec |-> TRUE]
  /\ websocket = "closed"
  /\ Len(Brackets) = 2

\* C20: every speech event at the sink lies inside a recording session: a
\* Started event precedes it with no Stopped event in between.
C20_SpeechInsideSession ==
  \A i \in DOMAIN sink :
    sink[i].cb # 0
    => \E j \in 1..(i - 1) :
         /\ sink[j].text = <<"[Meeting Recording Started]">>
         /\ \A k \in (j + 1)..(i - 1) :
              sink[k].text # <<"[Meeting Recording Stopped]">>

====
